---- MODULE Spec2Model ----
(***************************************************************************)
(* A model of the google-service-agent repository:                         *)
(*   - SpecStartup: the module-level code of app.py and of                 *)
(*     service-agent/agent.py, from the import of Config on;               *)
(*   - SpecLoad: the same code, app.py taken from its tool loading         *)
(*     (line 71) on;                                                       *)
(*   - Spec: app.py chat_loop, the console read loop with the OAuth round  *)
(*     trip, from its entry;                                               *)
(*   - SpecUrl: the authentication block of chat_loop (from line 221),     *)
(*     for every auth config the runtime may send.                         *)
(*                                                                         *)
(* Text is modelled as a sequence of tokens.  A console line is a sequence *)
(* of characters (whitespace characters are tokens of their own).  A URL   *)
(* is the record of its six components, its query a sequence of            *)
(* "key=value" fields, a value a sequence of words joined by '+'.          *)
(***************************************************************************)
EXTENDS Integers, Sequences, FiniteSets, TLC

VARIABLES
  \* ---- chat_loop (app.py 157-312)
  pc,                     \* position of chat_loop
  session,                \* session.id created at line 163
  query,                  \* the line read at line 183
  agent_response_text,    \* line 178
  auth_request_event_id,  \* line 179
  auth_config,            \* line 180
  auth_request_uri,       \* the URL printed by the prompt of line 243
  calls,                  \* runner.run_async calls of the current turn
  out,                    \* what the current turn printed
  seen,                   \* what the current turn took from its streams and the console
  raised,                 \* the exception the current turn raised, if any
  \* ---- module start-up (app.py 20-155, service-agent/agent.py 18-224)
  program,                \* which module is being initialised
  spc,                    \* position of the start-up code
  env,                    \* what the start-up finds: Config, spec files
  names,                  \* module-level names bound so far
  gmail_tools,            \* app.py line 72 / tools of gmail_agent
  calendar_tools,         \* app.py line 73 / tools of calendar_agent
  agents,                 \* the agents constructed so far
  printed,                \* start-up messages printed
  failure                 \* the exception that ended start-up, if any

chatVars == <<pc, session, query, agent_response_text, auth_request_event_id,
              auth_config, auth_request_uri, calls, out, seen, raised>>
startVars == <<program, spc, env, names, gmail_tools, calendar_tools, agents,
               printed, failure>>
vars == <<chatVars, startVars>>

\* ------------------------------------------------------------------ bounds
\* Longest query string of a base authorization URI, in fields.
MaxFields == 2
\* Most events one run_async stream delivers.
MaxEvents == 2

\* ---------------------------------------------------------------- sequences
RECURSIVE SeqsUpTo(_, _)
SeqsUpTo(S, n) ==
  IF n = 0 THEN {<<>>}
  ELSE LET shorter == SeqsUpTo(S, n - 1)
       IN  shorter \cup {Append(s, x) : s \in shorter, x \in S}

Range(s) == {s[i] : i \in 1..Len(s)}

\* Python's None for a str-valued name.
None == "<None>"

\* ------------------------------------------------------------ console lines
\* str.lower(), character by character.
LowerChar(c) ==
  CASE c = "Q" -> "q" [] c = "U" -> "u" [] c = "I" -> "i" [] c = "T" -> "t"
    [] c = "H" -> "h" [] OTHER -> c

Lower(line) == [i \in 1..Len(line) |-> LowerChar(line[i])]

IsSpace(c) == c \in {" ", "\t"}

RECURSIVE LStrip(_)
LStrip(line) ==
  IF line # <<>> /\ IsSpace(Head(line)) THEN LStrip(Tail(line)) ELSE line

RECURSIVE RStrip(_)
RStrip(line) ==
  IF line # <<>> /\ IsSpace(line[Len(line)])
  THEN RStrip(SubSeq(line, 1, Len(line) - 1)) ELSE line

\* A slip of app.py 248: the answer is taken as typed.
NoStrip(line) == line

\* str.strip()
Strip(line) == RStrip(LStrip(line))

Quit == <<"q", "u", "i", "t">>

\* A pasted browser address, one token: it holds no whitespace.
PastedUrl == "http://localhost:8000/callback?code=4/abc"

\* The lines the console delivers.
Lines ==
  { <<>>, <<" ">>, <<" ", "\t">>,
    Quit, <<"Q", "U", "I", "T">>, <<" ", "Q", "u", "i", "t", " ">>,
    <<"q", "u", "i", "t", " ", "h", "i">>,
    <<"h", "i">>, <<" ", "H", "i", " ">>,
    <<PastedUrl>>, <<" ", PastedUrl, "\t">> }

\* ----------------------------------------------------------- percent-encoding
REDIRECT_URI == "http://localhost:8000/callback"

GmailReadonly == "https://www.googleapis.com/auth/gmail.readonly"
GmailSend == "https://www.googleapis.com/auth/gmail.send"
UserinfoProfile == "https://www.googleapis.com/auth/userinfo.profile"
CalendarEvents == "https://www.googleapis.com/auth/calendar.events"
CalendarList == "https://www.googleapis.com/auth/calendar.calendarlist"

\* The keys of the required_scopes dict.
required_scopes ==
  {GmailReadonly, GmailSend, UserinfoProfile, CalendarEvents, CalendarList}

\* urllib.parse.quote_plus on one word (a word holds no space): ':' and '/'
\* are escaped, letters, digits and "_.-~" are kept.
QuoteWord(w) ==
  CASE w = REDIRECT_URI -> "http%3A%2F%2Flocalhost%3A8000%2Fcallback"
    [] w = GmailReadonly -> "https%3A%2F%2Fwww.googleapis.com%2Fauth%2Fgmail.readonly"
    [] w = GmailSend -> "https%3A%2F%2Fwww.googleapis.com%2Fauth%2Fgmail.send"
    [] w = UserinfoProfile -> "https%3A%2F%2Fwww.googleapis.com%2Fauth%2Fuserinfo.profile"
    [] w = CalendarEvents -> "https%3A%2F%2Fwww.googleapis.com%2Fauth%2Fcalendar.events"
    [] w = CalendarList -> "https%3A%2F%2Fwww.googleapis.com%2Fauth%2Fcalendar.calendarlist"
    [] OTHER -> w

\* urllib.parse.unquote on one word: every %XX is decoded, the rest is kept.
UnquoteWord(w) ==
  CASE w = "http%3A%2F%2Flocalhost%3A8000%2Fcallback" -> REDIRECT_URI
    [] w = "https%3A%2F%2Fwww.googleapis.com%2Fauth%2Fgmail.readonly" -> GmailReadonly
    [] w = "https%3A%2F%2Fwww.googleapis.com%2Fauth%2Fgmail.send" -> GmailSend
    [] w = "https%3A%2F%2Fwww.googleapis.com%2Fauth%2Fuserinfo.profile" -> UserinfoProfile
    [] w = "https%3A%2F%2Fwww.googleapis.com%2Fauth%2Fcalendar.events" -> CalendarEvents
    [] w = "https%3A%2F%2Fwww.googleapis.com%2Fauth%2Fcalendar.calendarlist" -> CalendarList
    [] w = "redirect%5Furi" -> "redirect_uri"
    [] OTHER -> w

\* A decoded string is the sequence of its space-separated words; quote_plus
\* writes each space as '+', and parse_qsl reads each '+' back as a space.
QuotePlus(text) == [i \in 1..Len(text) |-> QuoteWord(text[i])]
Unquote(text) == [i \in 1..Len(text) |-> UnquoteWord(text[i])]

\* ------------------------------------------------------------- query strings
\* One '&'-separated field of a query string: k, then '=' and v when eq.
Field(k, eq, v) == [k |-> k, eq |-> eq, v |-> v]

\* urllib.parse.parse_qsl(qs) with keep_blank_values=False: a field without
\* '=' or with an empty value is skipped, key and value are unquoted.
RECURSIVE parse_qsl(_)
parse_qsl(qs) ==
  IF qs = <<>> THEN <<>>
  ELSE LET f == Head(qs)
       IN  IF f.eq /\ f.v # <<>>
           THEN <<[k |-> UnquoteWord(f.k), v |-> Unquote(f.v)]>> \o parse_qsl(Tail(qs))
           ELSE parse_qsl(Tail(qs))

\* A dict keeps its keys in insertion order: a sequence of [k, vs] entries.
HasKey(d, k) == \E i \in 1..Len(d) : d[i].k = k

\* d[k] = vs : replaces the value of an existing key in place, appends a new key.
DictSet(d, k, vs) ==
  IF HasKey(d, k)
  THEN [i \in 1..Len(d) |-> IF d[i].k = k THEN [k |-> k, vs |-> vs] ELSE d[i]]
  ELSE Append(d, [k |-> k, vs |-> vs])

DictGet(d, k) == d[CHOOSE i \in 1..Len(d) : d[i].k = k].vs

\* urllib.parse.parse_qs: parsed_result[name].append(value) over parse_qsl.
RECURSIVE CollectPairs(_, _)
CollectPairs(d, pairs) ==
  IF pairs = <<>> THEN d
  ELSE LET p == Head(pairs)
           vs == IF HasKey(d, p.k) THEN Append(DictGet(d, p.k), p.v) ELSE <<p.v>>
       IN  CollectPairs(DictSet(d, p.k, vs), Tail(pairs))

parse_qs(qs) == CollectPairs(<<>>, parse_qsl(qs))

\* urllib.parse.urlencode(d, doseq=True): one "k=v" field per value of a key.
RECURSIVE urlencode(_)
urlencode(d) ==
  IF d = <<>> THEN <<>>
  ELSE LET e == Head(d)
       IN  [i \in 1..Len(e.vs) |-> Field(QuoteWord(e.k), TRUE, QuotePlus(e.vs[i]))]
           \o urlencode(Tail(d))

\* ---------------------------------------------------------------------- URLs
\* A URL string, by its pieces as written: scheme ":" "//" netloc path
\* ";" params "?" query "#" fragment.
Url(scheme, netloc, path, params, qs, fragment) ==
  [scheme |-> scheme, netloc |-> netloc, path |-> path, params |-> params,
   query |-> qs, fragment |-> fragment]

EmptyStr == Url("", "", "", "", <<>>, "")

\* Python's None for the auth_uri field.
NoneUri == [none |-> TRUE]

\* str.startswith("http") on one piece of text.
WordStartsWithHttp(w) == w \in {"http", "https", "httpS", "httpfoo"}

\* base_auth_uri.startswith("http"): decided by the piece the string begins with.
StartsWithHttp(u) ==
  IF u.scheme # "" THEN WordStartsWithHttp(u.scheme)
  ELSE u.netloc = "" /\ WordStartsWithHttp(u.path)

\* urlsplit lower-cases the scheme.
LowerScheme(s) ==
  CASE s = "HTTP" -> "http" [] s = "httpS" -> "https" [] OTHER -> s

\* urllib.parse.urlparse
urlparse(u) == [u EXCEPT !.scheme = LowerScheme(u.scheme)]

\* urllib.parse.urlunparse of the six components.
urlunparse(scheme, netloc, path, params, qs, fragment) ==
  Url(scheme, netloc, path, params, qs, fragment)

\* --------------------------------------------------- the authorization URL
\* ' '.join(scopes): the string whose words are the scopes.
JoinScopes(scopes) == scopes

\* A slip of lines 228-236: the three parameters are appended to the base
\* query as it stands instead of being set in the parsed dict.
RebuildQueryAppend(qs, scopes) ==
  qs \o << Field("redirect_uri", TRUE, QuotePlus(<<REDIRECT_URI>>)),
           Field("access_type", TRUE, <<"offline">>),
           Field("prompt", TRUE, <<"consent">>) >>

\* A slip of app.py 233: the test 'scope' not in query_params is left out.
RebuildQueryForceScope(qs, scopes) ==
  LET q0 == parse_qs(qs)
      q1 == DictSet(q0, "redirect_uri", <<(<<REDIRECT_URI>>)>>)
      q2 == DictSet(q1, "access_type", <<(<<"offline">>)>>)
      q3 == DictSet(q2, "prompt", <<(<<"consent">>)>>)
      q4 == IF scopes # <<>>
            THEN DictSet(q3, "scope", <<JoinScopes(scopes)>>)
            ELSE q3
  IN  urlencode(q4)

\* app.py 228-236: the query of the authorization URL, from the parsed base
\* query and auth_config.exchanged_auth_credential.oauth2.scopes.
RebuildQuery(qs, scopes) ==
  LET q0 == parse_qs(qs)
      q1 == DictSet(q0, "redirect_uri", <<(<<REDIRECT_URI>>)>>)
      q2 == DictSet(q1, "access_type", <<(<<"offline">>)>>)
      q3 == DictSet(q2, "prompt", <<(<<"consent">>)>>)
      q4 == IF ~HasKey(q3, "scope") /\ scopes # <<>>
            THEN DictSet(q3, "scope", <<JoinScopes(scopes)>>)
            ELSE q3
  IN  urlencode(q4)

\* app.py 224: not base_auth_uri or not base_auth_uri.startswith("http")
InvalidBaseUri(u) == u = NoneUri \/ u = EmptyStr \/ ~StartsWithHttp(u)

\* app.py 227-240: auth_request_uri
RebuildUrl(base_auth_uri, scopes) ==
  LET parsed_uri == urlparse(base_auth_uri)
  IN  urlunparse(parsed_uri.scheme, parsed_uri.netloc, parsed_uri.path,
                 parsed_uri.params, RebuildQuery(parsed_uri.query, scopes),
                 parsed_uri.fragment)

\* The fields a base authorization URI may carry.
RawFields ==
  { Field("redirect_uri", TRUE, <<"x">>),
    Field("redirect%5Furi", TRUE, <<"http%3A%2F%2Flocalhost%3A8000%2Fcallback">>),
    Field("access_type", TRUE, <<"online">>),
    Field("prompt", TRUE, <<"none">>),
    Field("prompt", TRUE, <<>>),
    Field("scope", TRUE, <<GmailReadonly, "openid">>),
    Field("scope", TRUE, <<>>),
    Field("state", TRUE, <<"a", "b">>),
    Field("novalue", FALSE, <<>>) }

Queries == SeqsUpTo(RawFields, MaxFields)

\* Base URIs whose string starts with "http".
HttpUris ==
  {Url("https", "accounts.google.com", "/o/oauth2/auth", "", q, "") : q \in Queries}
  \cup {Url("http", "a.com", "/p", "par", q, "frag") : q \in SeqsUpTo(RawFields, 1)}
  \cup {Url("", "", "httpfoo", "", q, "") : q \in SeqsUpTo(RawFields, 1)}
  \cup {Url("httpS", "A.com", "/P", "", q, "Frag") : q \in SeqsUpTo(RawFields, 1)}

\* Base URIs line 224 rejects.
RejectedUris ==
  { NoneUri, EmptyStr,
    Url("HTTP", "a.com", "/p", "", <<Field("state", TRUE, <<"a">>)>>, ""),
    Url("ftp", "a.com", "/p", "", <<>>, ""),
    Url("", "a.com", "/http", "", <<>>, "") }

BaseUris == HttpUris \cup RejectedUris

AllScopes ==
  <<GmailReadonly, GmailSend, UserinfoProfile, CalendarEvents, CalendarList>>

\* oauth2.scopes of a pending auth config.
ScopeLists == { <<>>, <<GmailReadonly>>, AllScopes }

\* An AuthConfig: cred tells whether exchanged_auth_credential.oauth2 is there.
AuthConfig(cred, uri, scopes) ==
  [cred |-> cred, auth_uri |-> uri, scopes |-> scopes,
   auth_response_uri |-> None, redirect_uri |-> None]

\* Python's None for auth_config.
NoneConfig == [none |-> TRUE]

AuthConfigs ==
  {AuthConfig(TRUE, u, sc) : u \in BaseUris, sc \in ScopeLists}
  \cup {AuthConfig(FALSE, NoneUri, <<>>)}

\* ------------------------------------------------------------ runtime events
\* An event of a run_async stream, by what chat_loop and helpers.py read of
\* it: parts[0].function_call (name, id, args['auth_config']),
\* long_running_tool_ids, and the text of the last part.  fc_name = None: no
\* function call.  arg: what args.get('auth_config') is.
Event(fc_name, fc_id, lr, arg, cfg, text) ==
  [fc_name |-> fc_name, fc_id |-> fc_id, lr |-> lr, arg |-> arg, cfg |-> cfg,
   text |-> text]

SorryText == "Sorry, there was an issue understanding the authentication request."

\* The auth configs the runtime sends in the chat loop.
ChatAuthConfigs ==
  { AuthConfig(TRUE, Url("https", "accounts.google.com", "/o/oauth2/auth", "", <<>>, ""), AllScopes),
    AuthConfig(TRUE, Url("https", "accounts.google.com", "/o/oauth2/auth", "",
                         <<Field("redirect_uri", TRUE, <<"x">>), Field("scope", TRUE, <<"openid">>)>>, ""), <<>>),
    AuthConfig(TRUE, Url("ftp", "a.com", "/p", "", <<>>, ""), AllScopes),
    AuthConfig(TRUE, NoneUri, <<>>),
    AuthConfig(FALSE, NoneUri, <<>>) }

TextEvents == {Event(None, None, {}, "missing", NoneConfig, t) : t \in {"", "hello"}}

\* Function-call events that are not pending-authorization events.
ToolEvents ==
  { Event("gmail_users_messages_list", "fc2", {"fc2"}, "missing", NoneConfig, ""),
    Event("adk_request_credential", "fc1", {}, "missing", NoneConfig, "") }

\* Credential requests of a long-running tool call.
CredentialEvents ==
  {Event("adk_request_credential", "fc1", {"fc1"}, "valid", c, "") : c \in ChatAuthConfigs}
  \cup {Event("adk_request_credential", "fc1", {"fc1"}, a, NoneConfig, "hello") :
          a \in {"missing", "notdict", "invalid"}}
  \cup {Event("adk_request_credential", "fc3", {"fc2", "fc3"}, "valid", c, "") :
          c \in {AuthConfig(TRUE, Url("https", "accounts.google.com", "/o/oauth2/auth", "", <<>>, ""), <<>>)}}
  \cup {Event("adk_request_credential", "", {""}, "valid", c, "") :
          c \in {AuthConfig(TRUE, Url("https", "accounts.google.com", "/o/oauth2/auth", "", <<>>, ""), AllScopes)}}

Events == TextEvents \cup ToolEvents \cup CredentialEvents

\* helpers.py 13-20
is_pending_auth_event(ev) ==
  /\ ev.fc_name # None
  /\ ev.fc_name = "adk_request_credential"
  /\ ev.lr # {}
  /\ ev.fc_id \in ev.lr

\* helpers.py 22-26: the id, or ValueError when it is None or empty.
get_function_call_id(ev) ==
  IF ev.fc_name # None /\ ev.fc_id # None /\ ev.fc_id # ""
  THEN [ok |-> TRUE, id |-> ev.fc_id]
  ELSE [ok |-> FALSE, id |-> None]

\* helpers.py 28-37: the validated AuthConfig, or ValueError.
get_function_call_auth_config(ev) ==
  IF ev.fc_name # None /\ ev.arg = "valid"
  THEN [ok |-> TRUE, cfg |-> ev.cfg]
  ELSE [ok |-> FALSE, cfg |-> NoneConfig]

\* The exception classes a call may raise (all subclasses of Exception).
Excs == {"EOFError", "ValueError", "Exception"}

\* ------------------------------------------------------------------ chat_loop
\* One printed message: which print statement, and the agent text it shows.
Msg(kind) == [kind |-> kind, text |-> ""]
AgentMsg(text) == [kind |-> "agent_text", text |-> text]

\* One runner.run_async call: the session it runs on and its new_message.
UserCall(sid, text) ==
  [session |-> sid, kind |-> "text", text |-> text, id |-> None,
   name |-> None, response |-> NoneConfig]
CredentialCall(sid, id, cfg) ==
  [session |-> sid, kind |-> "function_response", text |-> <<>>, id |-> id,
   name |-> "adk_request_credential", response |-> cfg]

SessionIds == {"s1", "s2"}

\* n: events taken from the current stream; pending1, pending2: a
\* pending-authorization event came in the first, the second stream; id: the
\* function call id of the first one; pasted: the answer to the prompt.
NoSeen ==
  [n |-> 0, pending1 |-> FALSE, pending2 |-> FALSE, id |-> None, pasted |-> <<>>]

\* The start-up variables while chat_loop runs.
StartupDone ==
  /\ program = "app" /\ spc = "chat_loop" /\ env = <<>> /\ names = {}
  /\ gmail_tools = {} /\ calendar_tools = {} /\ agents = <<>>
  /\ printed = <<>> /\ failure = "none"

\* app.py 159-175
Init ==
  /\ pc = "read"
  /\ session \in SessionIds
  /\ query = <<>>
  /\ agent_response_text = ""
  /\ auth_request_event_id = None
  /\ auth_config = NoneConfig
  /\ auth_request_uri = NoneUri
  /\ calls = <<>>
  /\ out = <<>>
  /\ seen = NoSeen
  /\ raised = "none"
  /\ StartupDone

\* A slip of lines 305-312: the last clause, except Exception, is left out.
OuterHandlerNoCatchAll(e) ==
  CASE e = "EOFError" -> [pc |-> "exited", msg |-> Msg("eof_exit")]
    [] e = "ValueError" -> [pc |-> "read", msg |-> Msg("config_error")]
    [] OTHER -> [pc |-> "crashed", msg |-> Msg("traceback")]

\* app.py 305-312: where the loop goes and what it prints on exception e.
OuterHandler(e) ==
  CASE e = "EOFError" -> [pc |-> "exited", msg |-> Msg("eof_exit")]
    [] e = "ValueError" -> [pc |-> "read", msg |-> Msg("config_error")]
    [] OTHER -> [pc |-> "read", msg |-> Msg("unexpected_error")]

\* app.py 291-297: the handlers of the authentication block; the loop goes on.
InnerHandler(e) ==
  CASE e = "ValueError" -> [pc |-> "read", msg |-> Msg("auth_flow_error")]
    [] OTHER -> [pc |-> "read", msg |-> Msg("auth_unexpected_error")]

\* helpers.py 9-11: get_user_input prints before it re-raises EOFError.
InputRaises(e) == IF e = "EOFError" THEN <<Msg("eof_helper")>> ELSE <<>>

\* app.py 184: query.lower().strip()
QueryStripped(line) == Strip(Lower(line))

\* A slip of line 194: query_stripped is sent instead of query.
ForwardQueryStripped(sid, line) == UserCall(sid, QueryStripped(line))

\* app.py 196-200: the run_async call for the user's line.
ForwardQuery(sid, line) == UserCall(sid, line)

\* app.py 178-200: a line is read.
ReadInput ==
  /\ pc = "read"
  /\ \E line \in Lines :
       LET query_stripped == QueryStripped(line)
       IN  /\ query' = line
           /\ IF query_stripped = Quit
              THEN pc' = "exited" /\ out' = <<Msg("exiting")>> /\ calls' = <<>>
              ELSE IF query_stripped = <<>>
              THEN pc' = "read" /\ out' = <<>> /\ calls' = <<>>
              ELSE /\ pc' = "stream1"
                   /\ out' = <<Msg("processing")>>
                   /\ calls' = <<ForwardQuery(session, line)>>
  /\ agent_response_text' = ""
  /\ auth_request_event_id' = None
  /\ auth_config' = NoneConfig
  /\ auth_request_uri' = NoneUri
  /\ seen' = NoSeen
  /\ raised' = "none"
  /\ UNCHANGED <<session, startVars>>

\* app.py 183 with 305-312: the read raises.
ReadRaises ==
  /\ pc = "read"
  /\ \E e \in Excs :
       LET h == OuterHandler(e)
       IN  /\ pc' = h.pc
           /\ out' = InputRaises(e) \o <<h.msg>>
           /\ raised' = e
  /\ query' = <<>>
  /\ agent_response_text' = ""
  /\ auth_request_event_id' = None
  /\ auth_config' = NoneConfig
  /\ auth_request_uri' = NoneUri
  /\ calls' = <<>>
  /\ seen' = NoSeen
  /\ UNCHANGED <<session, startVars>>

\* app.py 216-219 and 281-284: the text of the event's last part, if any.
TextAfter(text, ev) == IF ev.text # "" THEN ev.text ELSE text

\* A slip of app.py 299-302: the last branch, the notice for a turn without
\* text, is left out.
AfterStreamSilent(id, cfg, text) ==
  IF id # None /\ id # "" /\ cfg # NoneConfig
  THEN IF ~cfg.cred
       THEN [pc |-> InnerHandler("Exception").pc, uri |-> NoneUri,
             out |-> <<InnerHandler("Exception").msg>>, raised |-> "Exception"]
       ELSE IF InvalidBaseUri(cfg.auth_uri)
       THEN [pc |-> InnerHandler("ValueError").pc, uri |-> NoneUri,
             out |-> <<InnerHandler("ValueError").msg>>, raised |-> "ValueError"]
       ELSE [pc |-> "auth_prompt", uri |-> RebuildUrl(cfg.auth_uri, cfg.scopes),
             out |-> <<Msg("auth_prompt")>>, raised |-> "none"]
  ELSE IF text # ""
  THEN [pc |-> "read", uri |-> NoneUri, out |-> <<AgentMsg(text)>>, raised |-> "none"]
  ELSE [pc |-> "read", uri |-> NoneUri, out |-> <<>>, raised |-> "none"]

\* app.py 221-302: what follows the first stream, up to the next await.
\* The result: where the loop is, the URL shown, what was printed, and the
\* exception raised on the way.
AfterStream(id, cfg, text) ==
  IF id # None /\ id # "" /\ cfg # NoneConfig
  THEN IF ~cfg.cred
       THEN [pc |-> InnerHandler("Exception").pc, uri |-> NoneUri,
             out |-> <<InnerHandler("Exception").msg>>, raised |-> "Exception"]
       ELSE IF InvalidBaseUri(cfg.auth_uri)
       THEN [pc |-> InnerHandler("ValueError").pc, uri |-> NoneUri,
             out |-> <<InnerHandler("ValueError").msg>>, raised |-> "ValueError"]
       ELSE [pc |-> "auth_prompt", uri |-> RebuildUrl(cfg.auth_uri, cfg.scopes),
             out |-> <<Msg("auth_prompt")>>, raised |-> "none"]
  ELSE IF text # ""
  THEN [pc |-> "read", uri |-> NoneUri, out |-> <<AgentMsg(text)>>, raised |-> "none"]
  ELSE IF id = None \/ id = ""
  THEN [pc |-> "read", uri |-> NoneUri, out |-> <<Msg("no_response")>>, raised |-> "none"]
  ELSE [pc |-> "read", uri |-> NoneUri, out |-> <<>>, raised |-> "none"]

\* app.py 202, 216-219: an event that is not a pending-authorization event.
Stream1Event ==
  /\ pc = "stream1"
  /\ seen.n < MaxEvents
  /\ \E ev \in Events :
       /\ ~is_pending_auth_event(ev)
       /\ agent_response_text' = TextAfter(agent_response_text, ev)
  /\ seen' = [seen EXCEPT !.n = @ + 1]
  /\ UNCHANGED <<pc, session, query, auth_request_event_id, auth_config,
                 auth_request_uri, calls, out, raised, startVars>>

\* app.py 204-214, then 221-302: a pending-authorization event ends the
\* stream; the turn goes on to the authorization prompt or back to the read.
Stream1Pending ==
  /\ pc = "stream1"
  /\ seen.n < MaxEvents
  /\ \E ev \in Events :
       /\ is_pending_auth_event(ev)
       /\ LET gid == get_function_call_id(ev)
              gcfg == get_function_call_auth_config(ev)
              \* 207-208: the second assignment is not reached when the first raises
              ok == gid.ok /\ gcfg.ok
              id == IF ok THEN gid.id ELSE None
              cfg == IF gid.ok THEN gcfg.cfg ELSE NoneConfig
              text == IF ok THEN agent_response_text ELSE SorryText
              r == AfterStream(id, cfg, text)
          IN  /\ auth_request_event_id' = id
              /\ auth_config' = cfg
              /\ agent_response_text' = text
              /\ pc' = r.pc
              /\ auth_request_uri' = r.uri
              /\ out' = out \o <<Msg("auth_required")>>
                            \o (IF ok THEN <<>> ELSE <<Msg("auth_event_error")>>)
                            \o r.out
              /\ raised' = IF ~ok THEN "ValueError" ELSE r.raised
              /\ seen' = [seen EXCEPT !.n = @ + 1, !.pending1 = TRUE, !.id = ev.fc_id]
  /\ UNCHANGED <<session, query, calls, startVars>>

\* app.py 202 exhausted, then 221-302 (299-302 here: no authorization is pending).
Stream1End ==
  /\ pc = "stream1"
  /\ LET r == AfterStream(auth_request_event_id, auth_config, agent_response_text)
     IN  /\ pc' = r.pc
         /\ auth_request_uri' = r.uri
         /\ out' = out \o r.out
         /\ raised' = r.raised
  /\ UNCHANGED <<session, query, agent_response_text, auth_request_event_id,
                 auth_config, calls, seen, startVars>>

\* app.py 196-219 with 305-312: run_async, the stream or a helper raises.
Stream1Raises ==
  /\ pc = "stream1"
  /\ \E e \in Excs :
       LET h == OuterHandler(e)
       IN  /\ pc' = h.pc
           /\ out' = Append(out, h.msg)
           /\ raised' = e
  /\ UNCHANGED <<session, query, agent_response_text, auth_request_event_id,
                 auth_config, auth_request_uri, calls, seen, startVars>>

\* A slip of lines 254-255: line 255 is left out.
FillAuthConfigNoRedirect(cfg, auth_response_uri) ==
  [cfg EXCEPT !.auth_response_uri = auth_response_uri]

\* app.py 254-255: the pasted URL and the redirect URI go into the auth config.
FillAuthConfig(cfg, auth_response_uri) ==
  [cfg EXCEPT !.auth_response_uri = auth_response_uri,
              !.redirect_uri = REDIRECT_URI]

\* app.py 257-275: the credential goes back to the runtime.
Resubmit(sid, id, cfg) == CredentialCall(sid, id, cfg)

\* app.py 243-278: the user answers the authorization prompt.
AuthInput ==
  /\ pc = "auth_prompt"
  /\ \E line \in Lines :
       /\ LET auth_response_uri == Strip(line)
          IN  IF auth_response_uri = <<>>
              THEN /\ pc' = "read"
                   /\ out' = Append(out, Msg("auth_aborted"))
                   /\ UNCHANGED <<auth_config, calls, agent_response_text>>
              ELSE /\ auth_config' = FillAuthConfig(auth_config, auth_response_uri)
                   /\ calls' = Append(calls, Resubmit(session, auth_request_event_id, auth_config'))
                   /\ agent_response_text' = ""
                   /\ out' = Append(out, Msg("submitting"))
                   /\ pc' = "stream2"
       /\ seen' = [seen EXCEPT !.n = 0, !.pasted = line]
  /\ UNCHANGED <<session, query, auth_request_event_id, auth_request_uri,
                 raised, startVars>>

\* app.py 243 with 291-297: the read of the pasted URL raises.
AuthInputRaises ==
  /\ pc = "auth_prompt"
  /\ \E e \in Excs :
       LET h == InnerHandler(e)
       IN  /\ pc' = h.pc
           /\ out' = out \o InputRaises(e) \o <<h.msg>>
           /\ raised' = e
  /\ UNCHANGED <<session, query, agent_response_text, auth_request_event_id,
                 auth_config, auth_request_uri, calls, seen, startVars>>

\* app.py 279-284: an event of the stream that follows the resubmission.
Stream2Event ==
  /\ pc = "stream2"
  /\ seen.n < MaxEvents
  /\ \E ev \in Events :
       /\ agent_response_text' = TextAfter(agent_response_text, ev)
       /\ seen' = [seen EXCEPT !.n = @ + 1,
                               !.pending2 = @ \/ is_pending_auth_event(ev)]
  /\ UNCHANGED <<pc, session, query, auth_request_event_id, auth_config,
                 auth_request_uri, calls, out, raised, startVars>>

\* app.py 286-289
FinalReport(text) == IF text # "" THEN AgentMsg(text) ELSE Msg("auth_complete")

\* app.py 279 exhausted, then 286-289.
Stream2End ==
  /\ pc = "stream2"
  /\ out' = Append(out, FinalReport(agent_response_text))
  /\ pc' = "read"
  /\ UNCHANGED <<session, query, agent_response_text, auth_request_event_id,
                 auth_config, auth_request_uri, calls, seen, raised, startVars>>

\* app.py 271-284 with 291-297: run_async or the second stream raises.
Stream2Raises ==
  /\ pc = "stream2"
  /\ \E e \in Excs :
       LET h == InnerHandler(e)
       IN  /\ pc' = h.pc
           /\ out' = Append(out, h.msg)
           /\ raised' = e
  /\ UNCHANGED <<session, query, agent_response_text, auth_request_event_id,
                 auth_config, auth_request_uri, calls, seen, startVars>>

Next ==
  \/ ReadInput
  \/ ReadRaises
  \/ Stream1Event
  \/ Stream1Pending
  \/ Stream1End
  \/ Stream1Raises
  \/ AuthInput
  \/ AuthInputRaises
  \/ Stream2Event
  \/ Stream2End
  \/ Stream2Raises

Spec == Init /\ [][Next]_vars

\* ------------------------------------------- chat_loop entered at line 221
\* The authentication block of chat_loop (app.py 221-247) from the state in
\* which the first stream has delivered a pending-authorization event, for
\* every auth config the runtime may have sent.
InitUrl ==
  /\ pc = "line221"
  /\ session \in SessionIds
  /\ query = <<"h", "i">>
  /\ agent_response_text = ""
  /\ auth_request_event_id = "fc1"
  /\ auth_config \in AuthConfigs
  /\ auth_request_uri = NoneUri
  /\ calls = <<ForwardQuery(session, query)>>
  /\ out = <<Msg("processing"), Msg("auth_required")>>
  /\ seen = [NoSeen EXCEPT !.n = 1, !.pending1 = TRUE, !.id = "fc1"]
  /\ raised = "none"
  /\ StartupDone

\* app.py 221-247: the URL is rebuilt and shown, or the block raises.
AuthBlock ==
  /\ pc = "line221"
  /\ LET r == AfterStream(auth_request_event_id, auth_config, agent_response_text)
     IN  /\ pc' = r.pc
         /\ auth_request_uri' = r.uri
         /\ out' = out \o r.out
         /\ raised' = r.raised
  /\ UNCHANGED <<session, query, agent_response_text, auth_request_event_id,
                 auth_config, calls, seen, startVars>>

NextUrl == AuthBlock \/ AuthInput \/ AuthInputRaises

SpecUrl == InitUrl /\ [][NextUrl]_vars

\* ---------------------------------------------------------- module start-up
\* config.py 8-14: the attributes class Config defines.
ConfigAttrs ==
  {"AGENT_MODEL_NAME", "TOOL_MODEL_NAME", "CLIENT_ID", "CLIENT_SECRET",
   "REDIRECT_URI", "CREDENTIALS", "PROJECT_ID"}

\* config.py 9-10
ConfigModel(attr) ==
  CASE attr = "AGENT_MODEL_NAME" -> "gemini-2.5-pro"
    [] attr = "TOOL_MODEL_NAME" -> "gemini-2.5-flash"
    [] OTHER -> None

\* app.py 31-32 and service-agent/agent.py 27: the Config attributes read
\* outside any try block, in the order they are read.
ConfigReads(prog) ==
  IF prog = "app" THEN <<"MODEL_NAME", "REDIRECT_URI">> ELSE <<"REDIRECT_URI">>

\* The model of an agent: the module global MODEL_NAME (app.py 126, 134,
\* 144), Config.TOOL_MODEL_NAME and Config.AGENT_MODEL_NAME
\* (service-agent/agent.py 169, 190, 207).
ModelOf(prog, agent) ==
  IF prog = "app" THEN "MODEL_NAME"
  ELSE IF agent = "router" THEN ConfigModel("AGENT_MODEL_NAME")
  ELSE ConfigModel("TOOL_MODEL_NAME")

\* app.py 82-85, service-agent/agent.py 91-96
gmail_selected_tool_names ==
  {"gmail_users_messages_list", "gmail_users_messages_get",
   "gmail_users_messages_send", "gmail_users_get_profile"}

\* app.py 103-105, service-agent/agent.py 113-118
calendar_selected_tool_names ==
  {"calendar_events_list", "calendar_events_insert", "calendar_events_get",
   "calendar_calendar_list_list"}

\* The operations a Gmail, a Calendar spec file may define.
GmailOps ==
  {"gmail_users_messages_list", "gmail_users_get_profile", "gmail_users_drafts_delete"}
CalendarOps == {"calendar_events_list", "calendar_events_delete"}

\* A spec file: missing, malformed (OpenAPIToolset raises), or loadable with
\* the operations it defines.
SpecFiles(ops) ==
  {[file |-> f, ops |-> {}] : f \in {"missing", "malformed"}}
  \cup {[file |-> "ok", ops |-> o] : o \in SUBSET ops}

\* A slip of app.py 87: every tool of the toolset is taken.
SelectToolsAll(tools, selected) == tools

\* app.py 87 and 107: [tool for tool in toolset.get_tools() if tool.name in selected]
SelectTools(tools, selected) == tools \cap selected

\* service-agent/agent.py 91-96 and 113-118: the tools a toolset built with
\* tool_filter exposes.
ToolFilter(tools, tool_filter) == tools \cap tool_filter

\* app.py 74-93, 95-113 and service-agent/agent.py 66-79, 83-102, 105-126:
\* one try block around open() and OpenAPIToolset(); both handlers print.
LoadOutcome(f) ==
  CASE f.file = "missing" -> [raised |-> "none", msg |-> "spec_not_found", loaded |-> FALSE]
    [] f.file = "malformed" -> [raised |-> "none", msg |-> "spec_load_error", loaded |-> FALSE]
    [] OTHER -> [raised |-> "none", msg |-> "none", loaded |-> TRUE]

\* An agent name of the module: not yet bound, None, or an LlmAgent.
Unbound == [state |-> "unbound", model |-> None, tools |-> {}, subs |-> {}]
NoneAgent == [state |-> "none", model |-> None, tools |-> {}, subs |-> {}]
LlmAgent(model, tools, subs) ==
  [state |-> "built", model |-> model, tools |-> tools, subs |-> subs]

\* The chat_loop variables while a module is initialised.
ChatIdle ==
  /\ pc = "not_started" /\ session = None /\ query = <<>>
  /\ agent_response_text = "" /\ auth_request_event_id = None
  /\ auth_config = NoneConfig /\ auth_request_uri = NoneUri
  /\ calls = <<>> /\ out = <<>> /\ seen = NoSeen /\ raised = "none"

Envs(prog) ==
  [config_import : {"ok", "ImportError"},
   client_id : {"", "id"},
   client_secret : {"", "secret"},
   oauth : IF prog = "app" THEN {[file |-> "ok", ops |-> {}]} ELSE SpecFiles({}),
   gmail : SpecFiles(GmailOps),
   calendar : SpecFiles(CalendarOps)]

\* A module is imported: app.py at line 20, service-agent/agent.py at line 18.
InitStartup ==
  /\ program \in {"app", "agent"}
  /\ spc = "import_config"
  /\ env \in Envs(program)
  /\ names = {}
  /\ gmail_tools = {}
  /\ calendar_tools = {}
  /\ agents = [gmail |-> Unbound, calendar |-> Unbound, router |-> Unbound]
  /\ printed = <<>>
  /\ failure = "none"
  /\ ChatIdle

\* app.py 20-24, service-agent/agent.py 18-22
ImportConfig ==
  /\ spc = "import_config"
  /\ IF env.config_import = "ok"
     THEN /\ names' = names \cup {"Config"}
          /\ spc' = "read_config"
          /\ printed' = printed
     ELSE /\ printed' = Append(printed, "config_import_error")
          /\ spc' = "exited"
          /\ names' = names
  /\ UNCHANGED <<program, env, gmail_tools, calendar_tools, agents, failure, chatVars>>

\* The first attribute of reads that Config does not define, if any.
MissingAttrs(reads) == {i \in 1..Len(reads) : reads[i] \notin ConfigAttrs}

\* app.py 31-32, service-agent/agent.py 27: no handler is around these reads.
ReadConfig ==
  /\ spc = "read_config"
  /\ LET reads == ConfigReads(program)
     IN  IF MissingAttrs(reads) # {}
         THEN /\ failure' = "AttributeError"
              /\ spc' = "crashed"
              /\ names' = names
         ELSE /\ failure' = failure
              /\ spc' = "credentials"
              /\ names' = names \cup Range(reads)
  /\ UNCHANGED <<program, env, gmail_tools, calendar_tools, agents, printed, chatVars>>

\* app.py 34-69, service-agent/agent.py 29-64
Credentials ==
  /\ spc = "credentials"
  /\ IF env.client_id = "" \/ env.client_secret = ""
     THEN /\ printed' = printed \o <<"credentials_error", "check_setup">>
          /\ spc' = "exited"
          /\ names' = names \cup {"client_id", "client_secret"}
     ELSE /\ printed' = Append(printed, "setting_up_authentication")
          /\ spc' = IF program = "app" THEN "load_gmail" ELSE "load_oauth"
          /\ names' = names \cup {"client_id", "client_secret", "required_scopes",
                                  "auth_scheme", "auth_credential"}
  /\ UNCHANGED <<program, env, gmail_tools, calendar_tools, agents, failure, chatVars>>

\* service-agent/agent.py 66-79
LoadOauth ==
  /\ spc = "load_oauth"
  /\ LET r == LoadOutcome(env.oauth)
     IN  /\ names' = IF r.loaded THEN names \cup {"oauth_api_toolset"} ELSE names
         /\ printed' = IF r.msg = "none" THEN printed ELSE Append(printed, r.msg)
         /\ failure' = r.raised
         /\ spc' = IF r.raised = "none" THEN "load_gmail" ELSE "crashed"
  /\ UNCHANGED <<program, env, gmail_tools, calendar_tools, agents, chatVars>>

\* app.py 71-93, service-agent/agent.py 83-102
LoadGmail ==
  /\ spc = "load_gmail"
  /\ LET r == LoadOutcome(env.gmail)
     IN  /\ names' = IF r.loaded THEN names \cup {"gmail_api_toolset"} ELSE names
         /\ gmail_tools' =
              IF ~r.loaded THEN {}
              ELSE IF program = "app"
              THEN SelectTools(env.gmail.ops, gmail_selected_tool_names)
              ELSE ToolFilter(env.gmail.ops, gmail_selected_tool_names)
         /\ printed' = IF r.msg = "none" THEN printed ELSE Append(printed, r.msg)
         /\ failure' = r.raised
         /\ spc' = IF r.raised = "none" THEN "load_calendar" ELSE "crashed"
  /\ UNCHANGED <<program, env, calendar_tools, agents, chatVars>>

\* app.py 115-119: exit when neither list holds a tool.
NoToolsExit(gmail, calendar) == gmail = {} /\ calendar = {}

\* app.py 95-119, service-agent/agent.py 105-126
LoadCalendar ==
  /\ spc = "load_calendar"
  /\ LET r == LoadOutcome(env.calendar)
         tools == IF ~r.loaded THEN {}
                  ELSE IF program = "app"
                  THEN SelectTools(env.calendar.ops, calendar_selected_tool_names)
                  ELSE ToolFilter(env.calendar.ops, calendar_selected_tool_names)
         loadmsg == IF r.msg = "none" THEN <<>> ELSE <<r.msg>>
     IN  /\ names' = IF r.loaded THEN names \cup {"calendar_api_toolset"} ELSE names
         /\ calendar_tools' = tools
         /\ failure' = r.raised
         /\ IF r.raised # "none"
            THEN spc' = "crashed" /\ printed' = printed \o loadmsg
            ELSE IF program = "app" /\ NoToolsExit(gmail_tools, tools)
            THEN spc' = "exited" /\ printed' = printed \o loadmsg \o <<"no_tools_exit">>
            ELSE /\ spc' = "gmail_agent"
                 /\ printed' = printed \o loadmsg \o
                      (IF program # "app" THEN <<>>
                       ELSE IF gmail_tools = {} THEN <<"no_gmail_tools">>
                       ELSE IF tools = {} THEN <<"no_calendar_tools">> ELSE <<>>)
  /\ UNCHANGED <<program, env, gmail_tools, agents, chatVars>>

\* A slip of app.py 131 and 139: the agent is built whatever its tool list.
BuildAgentAlways(model, tools) == LlmAgent(model, tools, {})

\* app.py 125-131 and 133-139: LlmAgent(...) if tools else None
BuildAgent(model, tools) ==
  IF tools # {} THEN LlmAgent(model, tools, {}) ELSE NoneAgent

\* app.py 125-131; service-agent/agent.py 168-187, where tools names
\* gmail_api_toolset, bound only when its try block got to the assignment.
BuildGmailAgent ==
  /\ spc = "gmail_agent"
  /\ IF program = "app"
     THEN /\ agents' = [agents EXCEPT !.gmail = BuildAgent(ModelOf(program, "gmail"), gmail_tools)]
          /\ spc' = "calendar_agent"
          /\ failure' = failure
     ELSE IF "gmail_api_toolset" \in names
     THEN /\ agents' = [agents EXCEPT !.gmail = LlmAgent(ModelOf(program, "gmail"), gmail_tools, {})]
          /\ spc' = "calendar_agent"
          /\ failure' = failure
     ELSE /\ agents' = agents
          /\ spc' = "crashed"
          /\ failure' = "NameError"
  /\ UNCHANGED <<program, env, names, gmail_tools, calendar_tools, printed, chatVars>>

\* app.py 133-139; service-agent/agent.py 189-203
BuildCalendarAgent ==
  /\ spc = "calendar_agent"
  /\ IF program = "app"
     THEN /\ agents' = [agents EXCEPT !.calendar = BuildAgent(ModelOf(program, "calendar"), calendar_tools)]
          /\ spc' = "router_agent"
          /\ failure' = failure
     ELSE IF "calendar_api_toolset" \in names
     THEN /\ agents' = [agents EXCEPT !.calendar = LlmAgent(ModelOf(program, "calendar"), calendar_tools, {})]
          /\ spc' = "router_agent"
          /\ failure' = failure
     ELSE /\ agents' = agents
          /\ spc' = "crashed"
          /\ failure' = "NameError"
  /\ UNCHANGED <<program, env, names, gmail_tools, calendar_tools, printed, chatVars>>

\* app.py 141: [agent for agent in [gmail_agent, calendar_agent] if agent];
\* service-agent/agent.py 222: [gmail_agent, calendar_agent]
SubAgents(prog, ags) ==
  IF prog = "app"
  THEN {a \in {"gmail", "calendar"} : ags[a].state = "built"}
  ELSE {"gmail", "calendar"}

\* app.py 141-155, service-agent/agent.py 206-224
BuildRouterAgent ==
  /\ spc = "router_agent"
  /\ agents' = [agents EXCEPT !.router =
                  LlmAgent(ModelOf(program, "router"), {}, SubAgents(program, agents))]
  /\ spc' = "ready"
  /\ UNCHANGED <<program, env, names, gmail_tools, calendar_tools, printed, failure, chatVars>>

NextStartup ==
  \/ ImportConfig
  \/ ReadConfig
  \/ Credentials
  \/ LoadOauth
  \/ LoadGmail
  \/ LoadCalendar
  \/ BuildGmailAgent
  \/ BuildCalendarAgent
  \/ BuildRouterAgent

SpecStartup == InitStartup /\ [][NextStartup]_vars

\* The names app.py has bound when it gets to line 71.
NamesAtLine71 ==
  {"Config", "MODEL_NAME", "REDIRECT_URI", "client_id", "client_secret",
   "required_scopes", "auth_scheme", "auth_credential"}

\* service-agent/agent.py from its first line, and app.py from line 71 on:
\* the state lines 20-69 leave when Config, the client id and the client
\* secret were read.
InitLoad ==
  /\ program \in {"app", "agent"}
  /\ env \in {e \in Envs(program) :
                program = "app" =>
                  e.config_import = "ok" /\ e.client_id # "" /\ e.client_secret # ""}
  /\ spc = IF program = "app" THEN "load_gmail" ELSE "import_config"
  /\ names = IF program = "app" THEN NamesAtLine71 ELSE {}
  /\ gmail_tools = {}
  /\ calendar_tools = {}
  /\ agents = [gmail |-> Unbound, calendar |-> Unbound, router |-> Unbound]
  /\ printed = IF program = "app" THEN <<"setting_up_authentication">> ELSE <<>>
  /\ failure = "none"
  /\ ChatIdle

SpecLoad == InitLoad /\ [][NextStartup]_vars

\* ===================================================================== claims
\* How often key k occurs in the query of a URL, keys read as parse_qsl reads
\* them, and the values it occurs with.
KeyFields(u, k) == {i \in 1..Len(u.query) : UnquoteWord(u.query[i].k) = k}
KeyCount(u, k) == Cardinality(KeyFields(u, k))
KeyValues(u, k) == {Unquote(u.query[i].v) : i \in KeyFields(u, k)}

HasOnce(u, k, v) ==
  /\ KeyCount(u, k) = 1
  /\ \A i \in KeyFields(u, k) : u.query[i].eq
  /\ KeyValues(u, k) = {v}

MsgCount(kind) == Cardinality({i \in 1..Len(out) : out[i].kind = kind})

\* C1: once the authentication block has run on an auth config whose base
\* authorization URI starts with "http", an authorization URL is shown, and
\* its query holds redirect_uri, access_type and prompt exactly once each,
\* with the values REDIRECT_URI, "offline" and "consent".
C1_InjectedExactlyOnce ==
  (/\ pc # "line221"
   /\ auth_config.cred
   /\ auth_config.auth_uri # NoneUri
   /\ StartsWithHttp(auth_config.auth_uri))
  => /\ auth_request_uri # NoneUri
     /\ HasOnce(auth_request_uri, "redirect_uri", <<REDIRECT_URI>>)
     /\ HasOnce(auth_request_uri, "access_type", <<"offline">>)
     /\ HasOnce(auth_request_uri, "prompt", <<"consent">>)

\* C1 witness: a URL is shown for a base URI that carried redirect_uri twice
\* (once with an escaped key) .
C1_Witness ==
  /\ pc = "auth_prompt"
  /\ auth_request_uri # NoneUri
  /\ KeyCount(auth_config.auth_uri, "redirect_uri") = 2
  /\ auth_config.auth_uri.query[1].k # auth_config.auth_uri.query[2].k

\* C2 (as claimed): every authorization URL shown has a scope parameter that
\* holds every required OAuth scope.
C2_RequiredScopesInUrl ==
  auth_request_uri # NoneUri
  => \E v \in KeyValues(auth_request_uri, "scope") : required_scopes \subseteq Range(v)

\* C6: a credential resubmission is the second call of its turn, made after
\* a pending-authorization event of the first stream, after the URL was shown
\* and a non-empty answer was pasted; it carries that event's function call
\* id, the trimmed answer as auth_response_uri and REDIRECT_URI as redirect_uri.
C6_ResubmissionAfterRoundTrip ==
  \A i \in 1..Len(calls) :
    calls[i].kind = "function_response" =>
      /\ i = 2 /\ Len(calls) = 2 /\ calls[1].kind = "text"
      /\ calls[i].name = "adk_request_credential"
      /\ seen.pending1
      /\ \E j, k \in 1..Len(out) :
           j < k /\ out[j].kind = "auth_prompt" /\ out[k].kind = "submitting"
      /\ auth_request_uri # NoneUri
      /\ \E a \in 1..Len(seen.pasted) : ~IsSpace(seen.pasted[a])
      /\ calls[i].id = seen.id /\ seen.id \notin {None, ""}
      /\ calls[i].response.auth_response_uri # <<>>
      /\ ~IsSpace(Head(calls[i].response.auth_response_uri))
      /\ ~IsSpace(calls[i].response.auth_response_uri[Len(calls[i].response.auth_response_uri)])
      /\ \E a, b \in 1..Len(seen.pasted) :
           calls[i].response.auth_response_uri = SubSeq(seen.pasted, a, b)
      /\ calls[i].response.redirect_uri = REDIRECT_URI

\* C6 witness: a resubmission was made for an answer pasted with blanks
\* around it, for the function call id fc3.
C6_Witness ==
  /\ pc = "stream2"
  /\ Len(calls) = 2
  /\ calls[2].id = "fc3"
  /\ seen.pasted = <<" ", PastedUrl, "\t">>

ErrorKinds ==
  {"config_error", "unexpected_error", "auth_flow_error",
   "auth_unexpected_error", "auth_event_error"}

\* C7: when a turn has raised an exception other than EOFError, the loop has
\* printed an error message and is back at the console read: it has neither
\* ended nor let the exception out.
C7_ExceptionsPrintedAndLoopContinues ==
  raised \notin {"none", "EOFError"}
  => /\ pc = "read"
     /\ \E i \in 1..Len(out) : out[i].kind \in ErrorKinds

\* C7 witness: the stream of the user's message raised a plain Exception.
C7_Witness ==
  /\ raised = "Exception"
  /\ Len(calls) = 1
  /\ seen.n = 1
  /\ pc = "read"

\* C9 (as claimed): a turn that is over, and raised nothing, has shown one
\* authorization prompt for each stream that delivered a
\* pending-authorization event; and no turn reports the action as complete
\* after its second stream delivered one.
C9_PendingAuthAlwaysPrompted ==
  /\ (pc = "read" /\ seen.pending1 /\ raised = "none" => MsgCount("auth_prompt") >= 1)
  /\ (pc = "read" /\ seen.pending2 /\ raised = "none" => MsgCount("auth_prompt") >= 2)
  /\ (seen.pending2 => MsgCount("auth_complete") = 0)

IsBlank(line) == \A i \in 1..Len(line) : IsSpace(line[i])
IsQuit(line) == Strip(Lower(line)) = Quit
TextCalls == {i \in 1..Len(calls) : calls[i].kind = "text"}

\* C10: a blank line or a line that is 'quit' after lower-casing and trimming
\* causes no runtime call, 'quit' ends the loop and a blank line leads back to
\* the read; any other line is forwarded exactly once, as the first call of
\* its turn, with its text as typed; every call runs on the session created
\* at start-up, which never changes.
C10_OnlyRealQueriesForwarded ==
  /\ (IsBlank(query) \/ IsQuit(query) => calls = <<>>)
  /\ (IsQuit(query) => pc = "exited")
  /\ (IsBlank(query) /\ raised = "none" => pc = "read")
  /\ (~IsBlank(query) /\ ~IsQuit(query)
        => /\ TextCalls = {1}
           /\ calls[1].text = query)
  /\ \A i \in 1..Len(calls) : calls[i].session = session

\* C10 witness: a line with blanks and capitals around it was forwarded.
C10_Witness ==
  /\ query = <<" ", "H", "i", " ">>
  /\ pc = "stream2"
  /\ Len(calls) = 2

\* The tools a spec file yields for an allow-list.
ExpectedTools(f, selected) ==
  IF f.file = "ok" THEN {t \in f.ops : t \in selected} ELSE {}
ExpectedGmail == ExpectedTools(env.gmail, gmail_selected_tool_names)
ExpectedCalendar == ExpectedTools(env.calendar, calendar_selected_tool_names)

AgentAsExpected(agent, expected) ==
  /\ agent.state = (IF expected = {} THEN "none" ELSE "built")
  /\ agent.tools = expected

\* C3: in app.py from the tool loading on, whatever the two spec files are
\* (missing, malformed, loadable): no exception escapes; an agent is None
\* exactly when its tool list is empty, and router_agent.sub_agents holds
\* exactly the agents with a non-empty tool list; the process exits, with no
\* agent built, exactly when both tool lists are empty.
C3_AppDegradesGracefully ==
  program = "app" =>
    /\ spc # "crashed" /\ failure = "none"
    /\ (spc \in {"calendar_agent", "router_agent", "ready"}
          => AgentAsExpected(agents.gmail, ExpectedGmail))
    /\ (spc \in {"router_agent", "ready"}
          => AgentAsExpected(agents.calendar, ExpectedCalendar))
    /\ (spc = "ready"
          => /\ agents.router.state = "built"
             /\ ("gmail" \in agents.router.subs <=> ExpectedGmail # {})
             /\ ("calendar" \in agents.router.subs <=> ExpectedCalendar # {}))
    /\ (spc = "exited"
          => /\ ExpectedGmail = {} /\ ExpectedCalendar = {}
             /\ \A a \in {"gmail", "calendar", "router"} : agents[a] = Unbound)
    /\ (spc \in {"gmail_agent", "calendar_agent", "router_agent", "ready"}
          => ExpectedGmail # {} \/ ExpectedCalendar # {})

\* C3 witness: app.py is initialised with a malformed Gmail spec file and a
\* Calendar spec file with an allow-listed operation.
C3_Witness ==
  /\ program = "app"
  /\ spc = "ready"
  /\ env.gmail.file = "malformed"
  /\ agents.gmail = NoneAgent
  /\ agents.router.subs = {"calendar"}

\* C4 (as claimed): initialising service-agent/agent.py raises no exception,
\* whatever the three spec files are.
C4_AgentModuleDegradesGracefully ==
  program = "agent" => spc # "crashed" /\ failure = "none"

\* C5 (as claimed): with Config importable, a client id and a client secret
\* set, and an allow-listed tool in each spec file, app.py start-up neither
\* raises nor exits.
C5_AppStartupCompletes ==
  (/\ program = "app"
   /\ env.config_import = "ok"
   /\ env.client_id # "" /\ env.client_secret # ""
   /\ ExpectedGmail # {} /\ ExpectedCalendar # {})
  => spc \notin {"crashed", "exited"} /\ failure = "none"

\* C8: the tools of gmail_agent and of calendar_agent are always within the
\* allow-list of their service, in app.py and in service-agent/agent.py.
C8_OnlyAllowListedTools ==
  /\ gmail_tools \subseteq gmail_selected_tool_names
  /\ calendar_tools \subseteq calendar_selected_tool_names
  /\ agents.gmail.tools \subseteq gmail_selected_tool_names
  /\ agents.calendar.tools \subseteq calendar_selected_tool_names
  /\ agents.router.tools = {}

\* C8 witness: app.py has built both agents from spec files that also define
\* operations outside the allow-lists.
C8_Witness ==
  /\ program = "app"
  /\ spc = "ready"
  /\ "gmail_users_drafts_delete" \in env.gmail.ops
  /\ "calendar_events_delete" \in env.calendar.ops
  /\ agents.gmail.tools # {}
  /\ agents.calendar.tools # {}

\* C11: when the user answers the authorization prompt with an empty or
\* whitespace-only line, that step sends nothing to the runtime, leaves the
\* pending auth config (auth_response_uri and redirect_uri included) as it
\* was, prints the abort notice and takes the loop back to the console read.
C11_BlankAnswerAborts ==
  [][(pc = "auth_prompt" /\ raised' = "none" /\ IsBlank(seen'.pasted))
       => /\ calls' = calls
          /\ auth_config' = auth_config
          /\ out' = Append(out, Msg("auth_aborted"))
          /\ pc' = "read"]_vars

\* C11 witness: a turn ended with a whitespace-only answer to the prompt.
C11_Witness ==
  /\ pc = "read"
  /\ seen.pasted = <<" ", "\t">>
  /\ MsgCount("auth_prompt") = 1
  /\ MsgCount("auth_aborted") = 1
  /\ Len(calls) = 1
  /\ auth_config # NoneConfig

\* C12 (as claimed): once a console read of chat_loop has raised EOFError
\* (get_user_input has printed its notice), the loop has ended: it is at no
\* place from which it reads the console or calls the runtime again.
C12_EofEndsLoop ==
  MsgCount("eof_helper") > 0 => pc = "exited"

\* What a turn prints last: the final branches (app.py 286-289, 299-302),
\* the abort notice (251) and the exception handlers (291-297, 305-312).
OutcomeKinds ==
  {"agent_text", "no_response", "auth_complete", "auth_aborted",
   "auth_flow_error", "auth_unexpected_error", "config_error",
   "unexpected_error", "eof_exit"}
OutcomeCount == Cardinality({i \in 1..Len(out) : out[i].kind \in OutcomeKinds})

\* C13: a turn that forwarded a line to the runtime has printed exactly one
\* outcome when the loop is back at the console read (or has ended), and none
\* before; the state 'auth request id set, auth config unset, response text
\* empty' never occurs; and when the auth request could not be read from a
\* pending-authorization event, the outcome is the apology text and no
\* authorization prompt was shown.
C13_NoSilentTurn ==
  /\ (calls # <<>> /\ pc \in {"read", "exited"}
        => OutcomeCount = 1 /\ out[Len(out)].kind \in OutcomeKinds)
  /\ (calls # <<>> /\ pc \notin {"read", "exited"} => OutcomeCount = 0)
  /\ ~(/\ auth_request_event_id \notin {None, ""}
       /\ auth_config = NoneConfig
       /\ agent_response_text = "")
  /\ (MsgCount("auth_event_error") > 0
        => /\ pc = "read"
           /\ out[Len(out)] = AgentMsg(SorryText)
           /\ MsgCount("auth_prompt") = 0
           /\ Len(calls) = 1)

\* C13 witness: a turn ended with the apology, after an event whose
\* function call had an id but no auth_config argument.
C13_Witness ==
  /\ pc = "read"
  /\ seen.pending1 /\ seen.id = "fc1"
  /\ MsgCount("auth_event_error") = 1
  /\ auth_request_event_id = None
  /\ OutcomeCount = 1

\* The non-empty values of key k in a query string, in order, as a server
\* reads them.
RECURSIVE ValuesOf(_, _)
ValuesOf(qs, k) ==
  IF qs = <<>> THEN <<>>
  ELSE (IF Head(qs).eq /\ Head(qs).v # <<>> /\ UnquoteWord(Head(qs).k) = k
        THEN <<Unquote(Head(qs).v)>> ELSE <<>>) \o ValuesOf(Tail(qs), k)

RebuiltKeys == {"redirect_uri", "access_type", "prompt", "scope"}
OtherKeys(u) == {UnquoteWord(u.query[i].k) : i \in 1..Len(u.query)} \ RebuiltKeys

\* The authentication block has shown a URL for the base URI of the auth config.
UrlShown == pc # "line221" /\ auth_request_uri # NoneUri

\* Every key but the four rebuilt ones has the same non-empty values in the
\* base URI and in the URL shown, and the URL shown has no further key.
OtherKeysKept ==
  \A k \in OtherKeys(auth_config.auth_uri) \cup OtherKeys(auth_request_uri) :
    ValuesOf(auth_request_uri.query, k) = ValuesOf(auth_config.auth_uri.query, k)

\* A base URI that is empty or does not start with "http" is rejected: no
\* URL is shown, nothing is resubmitted, the loop is back at the read.
BadBaseRejected ==
  (/\ pc # "line221"
   /\ auth_config.cred
   /\ \/ auth_config.auth_uri = NoneUri
      \/ auth_config.auth_uri = EmptyStr
      \/ ~StartsWithHttp(auth_config.auth_uri))
  => /\ auth_request_uri = NoneUri
     /\ MsgCount("auth_prompt") = 0
     /\ Len(calls) = 1 /\ calls[1].kind = "text"
     /\ pc = "read"

\* C14 (as claimed): the URL shown has the scheme, host, path, params and
\* fragment of the base URI as written, every other query key with its
\* non-empty values, and the scope values of the base URI whenever the base
\* URI has a scope parameter; a bad base URI is rejected.
C14_OnlyFourParametersChange ==
  /\ UrlShown =>
       /\ auth_request_uri.scheme = auth_config.auth_uri.scheme
       /\ auth_request_uri.netloc = auth_config.auth_uri.netloc
       /\ auth_request_uri.path = auth_config.auth_uri.path
       /\ auth_request_uri.params = auth_config.auth_uri.params
       /\ auth_request_uri.fragment = auth_config.auth_uri.fragment
       /\ OtherKeysKept
       /\ (KeyCount(auth_config.auth_uri, "scope") > 0
             => ValuesOf(auth_request_uri.query, "scope")
                  = ValuesOf(auth_config.auth_uri.query, "scope"))
  /\ BadBaseRejected

\* The scheme in lower case.
SchemeInLowerCase(sch) ==
  CASE sch = "httpS" -> "https" [] sch = "HTTP" -> "http" [] OTHER -> sch

\* C14 (amended): the URL shown has the scheme of the base URI in lower
\* case and its host, path, params and fragment as written, every other
\* query key with its non-empty values and no further key; the scope values
\* of the base URI are kept whenever one of them is non-empty, and otherwise
\* the scope is the auth config's scopes, if it has any; a bad base URI is
\* rejected.
C14_OnlyFourParametersChangeAmended ==
  /\ UrlShown =>
       /\ auth_request_uri.scheme = SchemeInLowerCase(auth_config.auth_uri.scheme)
       /\ auth_request_uri.netloc = auth_config.auth_uri.netloc
       /\ auth_request_uri.path = auth_config.auth_uri.path
       /\ auth_request_uri.params = auth_config.auth_uri.params
       /\ auth_request_uri.fragment = auth_config.auth_uri.fragment
       /\ OtherKeysKept
       /\ ValuesOf(auth_request_uri.query, "scope") =
            (IF ValuesOf(auth_config.auth_uri.query, "scope") # <<>>
             THEN ValuesOf(auth_config.auth_uri.query, "scope")
             ELSE IF auth_config.scopes # <<>> THEN <<auth_config.scopes>>
             ELSE <<>>)
  /\ BadBaseRejected

\* C14 witness: a URL is shown for a base URI with its own scope and a state
\* parameter, while the auth config carries all five scopes.
C14_Witness ==
  /\ pc = "auth_prompt"
  /\ auth_config.scopes = AllScopes
  /\ auth_config.auth_uri.query =
       <<Field("scope", TRUE, <<GmailReadonly, "openid">>),
         Field("state", TRUE, <<"a", "b">>)>>
  /\ ValuesOf(auth_request_uri.query, "state") = <<(<<"a", "b">>)>>

====
